---- MODULE Spec2Model ----
(***************************************************************************)
(* A model of src/user_pinger/user_pinger.py: the UserPinger object, its   *)
(* pickled deque of parsed comments, the comment stream loop (listen), the *)
(* trigger parsing (handle), the authorization (handle_ping), the          *)
(* notification (ping_users) and the SIGTERM handler (exit).               *)
(*                                                                         *)
(* The main thread runs the code one source line (or one external call) at *)
(* a time; pc names the line it is about to run.  The SIGTERM handler can  *)
(* run between any two of these steps.                                     *)
(***************************************************************************)
EXTENDS Integers, Sequences, FiniteSets, TLC

(***************************************************************************)
(* Bounds.  Capacity stands for the deque's maxlen, 10000 in the source    *)
(* (lines 48, 50, 55, 58), scaled down so that eviction happens.           *)
(***************************************************************************)
Capacity == 2

\* comment fingerprints the stream can deliver: one more than fits the deque
NumIds == Capacity + 1

\* appends per process lifetime (the stream then only ticks)
MaxInserts == Capacity + 1

(***************************************************************************)
(* Strings.  A string is modelled by its letters folded to lower case (b)  *)
(* and its letter case (c): "l" all lower, "u" all upper, "m" mixed, "-"   *)
(* for a string without letters.  str.lower() and str.upper() change c     *)
(* only; two strings are equal when both fields are.                       *)
(***************************************************************************)
Nm(b, c) == [b |-> b, c |-> c]

NoName == Nm("", "-")

Lower(s) == IF s.c = "-" THEN s ELSE [s EXCEPT !.c = "l"]

Upper(s) == IF s.c = "-" THEN s ELSE [s EXCEPT !.c = "u"]

\* a run of whitespace in a comment body
WS == Nm(" ", "-")

\* the literal "!PING" of line 118
PING == Nm("!ping", "u")

Range(s) == {s[k] : k \in 1..Len(s)}

Min(a, b) == IF a < b THEN a ELSE b

\* the last n elements of s
LastN(s, n) == SubSeq(s, Len(s) - Min(n, Len(s)) + 1, Len(s))

Count(s, x) == Cardinality({k \in 1..Len(s) : s[k] = x})

(***************************************************************************)
(* collections.deque(maxlen=10000)                                         *)
(***************************************************************************)
\* a deque that drops the new entry when it is full
DequeAppendDropNew(d, x) == IF Len(d) < Capacity THEN Append(d, x) ELSE d

\* a deque without maxlen
DequeAppendNoEvict(d, x) == Append(d, x)

\* deque.append with maxlen: the oldest entry leaves when the deque is full
DequeAppend(d, x) == LastN(Append(d, x), Capacity)

\* Deque(iterable, maxlen=10000): the last maxlen entries of the iterable
DequeOf(items) == LastN(items, Capacity)

(***************************************************************************)
(* pickle.  A pickled deque is the byte sequence <<maxlen, n, e1, .. en>>. *)
(***************************************************************************)
\* a pickle written without its last entry
DumpsCutShort(maxlen, items) ==
  <<maxlen, Len(items)>> \o SubSeq(items, 1, Len(items) - 1)

Dumps(maxlen, items) == <<maxlen, Len(items)>> \o items

\* pickle.loads: EOFError on no input, UnpicklingError on truncated input
Loads(bytes) ==
  IF bytes = <<>>
    THEN [err |-> "EOFError", maxlen |-> 0, items |-> <<>>]
  ELSE IF Len(bytes) < 2 \/ Len(bytes) # bytes[2] + 2
    THEN [err |-> "UnpicklingError", maxlen |-> 0, items |-> <<>>]
  ELSE [err |-> "ok", maxlen |-> bytes[1], items |-> SubSeq(bytes, 3, Len(bytes))]

NoFile == [exists |-> FALSE, bytes |-> <<>>]

FileOf(bytes) == [exists |-> TRUE, bytes |-> bytes]

\* load with Deque(maxlen=10000) at line 50
load_discarding(f) ==
  IF ~f.exists
    THEN [err |-> "ok", items |-> <<>>]
  ELSE LET r == Loads(f.bytes) IN
    IF r.err = "EOFError" THEN [err |-> "ok", items |-> <<>>]
    ELSE IF r.err # "ok" THEN [err |-> r.err, items |-> <<>>]
    ELSE IF r.maxlen # Capacity THEN [err |-> "ok", items |-> <<>>]
    ELSE [err |-> "ok", items |-> r.items]

\* UserPinger.load: the deque restored from parsed.pkl, or the error raised
load(f) ==
  IF ~f.exists
    THEN [err |-> "ok", items |-> <<>>]
  ELSE LET r == Loads(f.bytes) IN
    IF r.err = "EOFError" THEN [err |-> "ok", items |-> <<>>]
    ELSE IF r.err # "ok" THEN [err |-> r.err, items |-> <<>>]
    ELSE IF r.maxlen # Capacity THEN [err |-> "ok", items |-> DequeOf(r.items)]
    ELSE [err |-> "ok", items |-> r.items]

\* <<1, 2, .. n>>
Ids(n) == [k \in 1..n |-> k]

\* what parsed.pkl can hold when the process starts
InitialFiles ==
  { NoFile,
    FileOf(<<>>),
    FileOf(<<Capacity, 2, 1>>),
    FileOf(Dumps(Capacity, Ids(1))),
    FileOf(Dumps(Capacity, Ids(Capacity))),
    FileOf(Dumps(Capacity + 1, Ids(1))),
    FileOf(Dumps(Capacity + 1, Ids(Capacity + 1))) }

(***************************************************************************)
(* The inputs: user names, group names, comment bodies, wiki pages.        *)
(***************************************************************************)
alice == Nm("alice", "l")

Alice == Nm("alice", "m")

bob == Nm("bob", "l")

Bob == Nm("bob", "m")

carol == Nm("carol", "l")

\* a wiki page parsed by ConfigParser: its sections in order, each with its
\* options in order; optionxform (line 72) keeps the options as written
Section(name, opts) == [name |-> name, opts |-> opts]

NoPage == <<>>

\* userpinger/groups: group MODS and group NEWS, names stored in upper case
RosterUpper ==
  << Section(Nm("mods", "u"), <<alice, Bob, carol>>),
     Section(Nm("news", "u"), <<bob>>) >>

\* userpinger/groups: group mods, name stored in lower case
RosterLower == << Section(Nm("mods", "l"), <<alice, bob>>) >>

GroupPages == {RosterUpper, RosterLower}

\* userpinger/config: without a public section, and with group news public,
\* written in lower case or capitalised
ConfigPages ==
  { << Section(Nm("other", "l"), <<>>) >>,
    << Section(Nm("public", "l"), <<Nm("news", "l")>>) >>,
    << Section(Nm("public", "l"), <<Nm("news", "m")>>) >> }

HasSection(page, name) == \E k \in 1..Len(page) : page[k].name = name

\* ConfigParser.options(section); NoSectionError when HasSection is false
Options(page, name) ==
  LET k == CHOOSE k \in 1..Len(page) : page[k].name = name IN page[k].opts

\* comment.body: words separated by whitespace
Bodies ==
  { << Nm("hello", "l") >>,
    << WS, Nm("!ping", "l"), WS >>,
    << Nm("!ping", "l"), WS, Nm("mods", "l") >>,
    << Nm("hello", "l"), WS, Nm("!ping", "m"), WS, Nm("news", "m"), WS,
       Nm("!ping", "u"), WS, Nm("mods", "l") >> }

Authors == {Alice, carol}

Comment(id, author, body) == [id |-> id, author |-> author, body |-> body]

NoComment == Comment(0, NoName, <<>>)

Comments == {Comment(id, a, b) : id \in 1..NumIds, a \in Authors, b \in Bodies}

\* subreddit.moderator(): the current moderators (lower-cased names)
ModLists == { {}, {"carol"} }

\* str(comment): the comment's id, the fingerprint kept in self.parsed
Fingerprint(c) == c.id

(***************************************************************************)
(* Exceptions of the platform client.                                      *)
(***************************************************************************)
\* prawcore's ServerError, ResponseException and RequestException
Transient == {"ServerError", "ResponseException", "RequestException"}

\* what get_wiki_page can raise (lines 79 to 87)
WikiErrors == Transient \cup {"NotFound", "ParsingError"}

\* what comment.reply, comment.edit and redditor.message can raise
ApiErrors == Transient \cup {"APIException"}

\* listen without the clause of lines 102 to 104
CaughtByListenButServer(e) ==
  e \in {"ResponseException", "RequestException", "NotFound"}

\* the except clauses of listen (lines 102 to 110); prawcore's NotFound is a
\* ResponseException
CaughtByListen(e) ==
  e \in {"ServerError", "ResponseException", "RequestException", "NotFound"}

\* the argument of sleep in the clause that catches e (lines 104, 107, 110)
Backoff(e) ==
  CASE e = "ServerError" -> 60
    [] e \in {"ResponseException", "NotFound"} -> 60
    [] e = "RequestException" -> 60

(***************************************************************************)
(* str.upper().split() and list.index                                      *)
(***************************************************************************)
UpperAll(body) == [k \in 1..Len(body) |-> Upper(body[k])]

IsWord(t) == t # WS

\* str.split(): the words between the runs of whitespace
Split(body) == SelectSeq(body, IsWord)

\* the last position of x instead of the first
IndexLast(s, x) ==
  IF x \in Range(s) THEN CHOOSE k \in 1..Len(s) : s[k] = x /\ \A j \in (k+1)..Len(s) : s[j] # x
  ELSE 0

\* list.index(x): the first position of x, 0 for ValueError
Index(s, x) ==
  IF x \in Range(s) THEN CHOOSE k \in 1..Len(s) : s[k] = x /\ \A j \in 1..(k-1) : s[j] # x
  ELSE 0

\* the external actions of the dispatch of one comment, in order
Ent(op, idx, to, body, res) ==
  [op |-> op, idx |-> idx, to |-> to, body |-> body, res |-> res]

VARIABLES
  pc,        \* the line the main thread is about to run
  parsed,    \* self.parsed, a deque of maxlen Capacity
  file,      \* parsed.pkl
  config,    \* self.config
  comment,   \* the comment of the current iteration of listen
  split,     \* handle's split
  group,     \* handle's trigger, handle_ping's group
  groups,    \* handle_ping's groups
  users,     \* handle_ping's users
  i,         \* ping_users' position in users
  exc,       \* the exception being handled or propagated
  sig,       \* SIGTERM delivered, handler not yet run
  log,       \* the external actions done for the current comment
  verdict,   \* how far the classification of the current comment got
  modsNow,   \* what subreddit.moderator() returned for the current comment
  hist,      \* the fingerprints appended since construction
  loaded,    \* the deque as load returned it
  delay,     \* the argument of the sleep call in progress, 0 when none is
  past,      \* what the previous run of the process left, see restart
  aborted    \* the comment whose dispatch a caught exception ended last,
             \* 0 when none did or its fingerprint has left self.parsed

vars == << pc, parsed, file, config, comment, split, group, groups, users, i,
           exc, sig, log, verdict, modsNow, hist, loaded, delay, past,
           aborted >>

notes == << past, aborted >>

\* no previous run
NoPast == [restarted |-> FALSE, prev |-> <<>>, cut |-> 0, spent |-> 0]

cache == << parsed, hist, loaded, file >>

locals == << comment, split, group, groups, users, i, log, verdict, modsNow >>

Init ==
  /\ pc = "start"
  /\ parsed = <<>>
  /\ file \in InitialFiles
  /\ config = NoPage
  /\ comment = NoComment
  /\ split = <<>>
  /\ group = NoName
  /\ groups = NoPage
  /\ users = <<>>
  /\ i = 0
  /\ exc = "none"
  /\ sig = FALSE
  /\ log = <<>>
  /\ verdict = "none"
  /\ modsNow = {}
  /\ hist = <<>>
  /\ loaded = <<>>
  /\ delay = 0
  /\ past = NoPast
  /\ aborted = 0

\* the locals of an iteration that is over
Cleared ==
  /\ comment' = NoComment
  /\ split' = <<>>
  /\ group' = NoName
  /\ groups' = NoPage
  /\ users' = <<>>
  /\ i' = 0
  /\ log' = <<>>
  /\ verdict' = "none"
  /\ modsNow' = {}

\* an exception raised in listen's try block: a clause of listen catches it
\* and sleeps, or it leaves listen
Raise(e) ==
  /\ exc' = e
  /\ pc' = IF CaughtByListen(e) THEN "sleep" ELSE "uncaught"
  /\ delay' = IF CaughtByListen(e) THEN Backoff(e) ELSE delay

(***************************************************************************)
(* Construction and the caller of listen.                                  *)
(***************************************************************************)
\* UserPinger.__init__: fetch the config page, load the deque, register exit
\* for SIGTERM.  An exception of get_wiki_page or of load leaves __init__
\* before exit is registered (failed).
construct ==
  /\ pc = "start"
  /\ \/ \E page \in ConfigPages :
          LET r == load(file) IN
          IF r.err = "ok"
            THEN /\ config' = page
                 /\ parsed' = r.items
                 /\ loaded' = r.items
                 /\ pc' = "main"
                 /\ exc' = exc
            ELSE /\ config' = page
                 /\ exc' = r.err
                 /\ pc' = "failed"
                 /\ UNCHANGED << parsed, loaded >>
     \/ \E e \in WikiErrors :
          /\ exc' = e
          /\ pc' = "failed"
          /\ UNCHANGED << config, parsed, loaded >>
  /\ UNCHANGED << file, hist, sig, locals, delay, notes >>

\* the entry point calls listen, again after each return of it
run ==
  /\ pc = "main"
  /\ ~sig
  /\ pc' = "stream"
  /\ UNCHANGED << cache, notes, config, exc, delay, sig, locals >>

\* an exception that leaves listen or __init__ is handled nowhere: the
\* interpreter ends the process
abort ==
  /\ pc \in {"uncaught", "failed"}
  /\ pc' = "crashed"
  /\ Cleared
  /\ UNCHANGED << cache, notes, config, exc, delay, sig >>

(***************************************************************************)
(* listen                                                                  *)
(***************************************************************************)
\* line 96: the stream yields a comment, or None (line 98: break, listen
\* returns), or the request fails
pull ==
  /\ pc = "stream"
  /\ ~sig
  /\ \/ /\ past.spent + Len(hist) < MaxInserts
        /\ \E c \in Comments : comment' = c
        /\ pc' = "check"
        /\ UNCHANGED << exc, delay >>
     \/ /\ pc' = "main"
        /\ UNCHANGED << comment, exc, delay >>
     \/ /\ \E e \in Transient : Raise(e)
        /\ UNCHANGED comment
  /\ UNCHANGED << cache, notes, config, sig, split, group, groups, users, i, log,
                  verdict, modsNow >>

\* lines 99 to 101 without the test of line 99
check_always_handles ==
  /\ pc = "check"
  /\ ~sig
  /\ pc' = "handle"
  /\ UNCHANGED << cache, notes, config, exc, delay, sig, locals >>

\* lines 99 to 101: a comment found in self.parsed is skipped
check ==
  /\ pc = "check"
  /\ ~sig
  /\ IF Fingerprint(comment) \in Range(parsed)
       THEN /\ verdict' = "duplicate"
            /\ pc' = "next"
       ELSE /\ verdict' = verdict
            /\ pc' = "handle"
  /\ UNCHANGED << cache, notes, config, exc, delay, sig, comment, split, group, groups,
                  users, i, log, modsNow >>

\* the for loop of line 96 goes to its next iteration
next ==
  /\ pc = "next"
  /\ ~sig
  /\ pc' = "stream"
  /\ Cleared
  /\ UNCHANGED << cache, notes, config, exc, delay, sig >>

\* lines 102 to 110 with the comment taken out of self.parsed, to be tried
\* again
wake_forgetting ==
  /\ pc = "sleep"
  /\ ~sig
  /\ pc' = "main"
  /\ exc' = "none"
  /\ delay' = 0
  /\ aborted' = IF comment # NoComment THEN Fingerprint(comment) ELSE aborted
  /\ parsed' = IF comment # NoComment
                 THEN SelectSeq(parsed, LAMBDA x : x # Fingerprint(comment))
                 ELSE parsed
  /\ Cleared
  /\ UNCHANGED << hist, loaded, file, past, config, sig >>

\* lines 102 to 110: sleep(60) is over, listen returns
wake ==
  /\ pc = "sleep"
  /\ ~sig
  /\ pc' = "main"
  /\ exc' = "none"
  /\ delay' = 0
  /\ aborted' = IF comment # NoComment THEN Fingerprint(comment) ELSE aborted
  /\ Cleared
  /\ UNCHANGED << cache, past, config, sig >>

(***************************************************************************)
(* handle                                                                  *)
(***************************************************************************)
\* line 114
handle_split ==
  /\ pc = "handle"
  /\ ~sig
  /\ split' = Split(UpperAll(comment.body))
  /\ pc' = "append"
  /\ UNCHANGED << cache, notes, config, exc, delay, sig, comment, group, groups, users, i,
                  log, verdict, modsNow >>

\* line 115 left out
handle_append_skipped ==
  /\ pc = "append"
  /\ ~sig
  /\ pc' = "index"
  /\ UNCHANGED << cache, notes, config, exc, delay, sig, locals >>

\* line 115
handle_append ==
  /\ pc = "append"
  /\ ~sig
  /\ parsed' = DequeAppend(parsed, Fingerprint(comment))
  /\ hist' = Append(hist, Fingerprint(comment))
  /\ aborted' = IF aborted \in Range(parsed') THEN aborted ELSE 0
  /\ pc' = "index"
  /\ UNCHANGED << loaded, file, config, exc, delay, sig, locals, past >>

\* lines 117 to 131: no trigger, a trigger without a group, or the group
handle_index ==
  /\ pc = "index"
  /\ ~sig
  /\ LET index == Index(split, PING) IN
       IF index = 0
         THEN /\ verdict' = "no-trigger"
              /\ pc' = "next"
              /\ group' = group
       ELSE IF index + 1 > Len(split)
         THEN /\ verdict' = "malformed"
              /\ pc' = "next"
              /\ group' = group
       ELSE /\ verdict' = "candidate"
            /\ group' = split[index + 1]
            /\ pc' = "fetch_config"
  /\ UNCHANGED << cache, notes, config, exc, delay, sig, comment, split, groups, users, i,
                  log, modsNow >>

(***************************************************************************)
(* handle_ping                                                             *)
(***************************************************************************)
ConfigPage == Nm("config", "l")

GroupsPage == Nm("groups", "l")

PublicSection == Nm("public", "l")

\* line 150: self.config = self.get_wiki_page("config")
fetch_config ==
  /\ pc = "fetch_config"
  /\ ~sig
  /\ \/ \E page \in ConfigPages :
          /\ config' = page
          /\ log' = Append(log, Ent("fetch", 0, ConfigPage, <<>>, "ok"))
          /\ pc' = "fetch_groups"
          /\ UNCHANGED << exc, delay >>
     \/ \E e \in WikiErrors :
          /\ log' = Append(log, Ent("fetch", 0, ConfigPage, <<>>, e))
          /\ Raise(e)
          /\ UNCHANGED config
  /\ UNCHANGED << cache, notes, sig, comment, split, group, groups, users, i, verdict,
                  modsNow >>

\* line 154: groups = self.get_wiki_page("groups")
fetch_groups ==
  /\ pc = "fetch_groups"
  /\ ~sig
  /\ \/ \E page \in GroupPages :
          /\ groups' = page
          /\ log' = Append(log, Ent("fetch", 0, GroupsPage, <<>>, "ok"))
          /\ pc' = "lookup"
          /\ UNCHANGED << exc, delay >>
     \/ \E e \in WikiErrors :
          /\ log' = Append(log, Ent("fetch", 0, GroupsPage, <<>>, e))
          /\ Raise(e)
          /\ UNCHANGED groups
  /\ UNCHANGED << cache, notes, config, sig, comment, split, group, users, i, verdict,
                  modsNow >>

\* lines 157 to 164 with the section found whatever the case of its name
lookup_ignoring_case ==
  /\ pc = "lookup"
  /\ ~sig
  /\ IF \E k \in 1..Len(groups) : Lower(groups[k].name) = Lower(group)
       THEN /\ users' = groups[CHOOSE k \in 1..Len(groups) :
                                 Lower(groups[k].name) = Lower(group)].opts
            /\ verdict' = verdict
            /\ pc' = "authorize"
       ELSE /\ users' = users
            /\ verdict' = "unknown-group"
            /\ pc' = "error_pm"
  /\ UNCHANGED << cache, notes, config, exc, delay, sig, comment, split, group,
                  groups, i, log, modsNow >>

\* lines 158 to 164: users = groups.options(group), NoSectionError for a
\* group that is no section of the page
lookup ==
  /\ pc = "lookup"
  /\ ~sig
  /\ IF HasSection(groups, group)
       THEN /\ users' = Options(groups, group)
            /\ verdict' = verdict
            /\ pc' = "authorize"
       ELSE /\ users' = users
            /\ verdict' = "unknown-group"
            /\ pc' = "error_pm"
  /\ UNCHANGED << cache, notes, config, exc, delay, sig, comment, split, group, groups, i,
                  log, modsNow >>

\* line 137
in_group(author, members) ==
  Lower(author) \in {Lower(members[k]) : k \in 1..Len(members)}

\* line 141, for a config page that has a public section
public_group(g) == Lower(g) \in Range(Options(config, PublicSection))

\* line 145, mods being what subreddit.moderator() returned
is_moderator(author, mods) == Lower(author).b \in mods

\* line 167: in_group(..) or public_group(..) or is_moderator(..), the later
\* ones evaluated only when the earlier ones are false
authorize ==
  /\ pc = "authorize"
  /\ ~sig
  /\ IF in_group(comment.author, users)
       THEN /\ verdict' = "authorized"
            /\ pc' = "post"
            /\ UNCHANGED << log, exc, delay, modsNow >>
     ELSE IF ~HasSection(config, PublicSection)
       THEN /\ Raise("NoSectionError")
            /\ UNCHANGED << log, verdict, modsNow >>
     ELSE IF public_group(group)
       THEN /\ verdict' = "authorized"
            /\ pc' = "post"
            /\ UNCHANGED << log, exc, delay, modsNow >>
     ELSE \/ \E mods \in ModLists :
               /\ modsNow' = mods
               /\ log' = Append(log, Ent("moderator", 0, comment.author, <<>>, "ok"))
               /\ verdict' = IF is_moderator(comment.author, mods)
                               THEN "authorized" ELSE "unauthorized"
               /\ pc' = IF is_moderator(comment.author, mods)
                          THEN "post" ELSE "error_pm"
               /\ UNCHANGED << exc, delay >>
          \/ \E e \in Transient :
               /\ log' = Append(log, Ent("moderator", 0, comment.author, <<>>, e))
               /\ Raise(e)
               /\ UNCHANGED << verdict, modsNow >>
  /\ UNCHANGED << cache, notes, config, sig, comment, split, group, groups, users, i >>

\* send_error_pm without the return of line 163 or 173 after it
error_pm_falls_through ==
  /\ pc = "error_pm"
  /\ ~sig
  /\ log' = Append(log, Ent("error_pm", 0, comment.author, <<>>, "ok"))
  /\ pc' = "post"
  /\ UNCHANGED << cache, notes, config, exc, delay, sig, comment, split, group, groups,
                  users, i, verdict, modsNow >>

\* lines 162 and 163, lines 169 to 173, send_error_pm: one message to the
\* comment's author, then handle_ping returns
error_pm ==
  /\ pc = "error_pm"
  /\ ~sig
  /\ \/ /\ log' = Append(log, Ent("error_pm", 0, comment.author, <<>>, "ok"))
        /\ pc' = "next"
        /\ UNCHANGED << exc, delay >>
     \/ \E e \in ApiErrors :
          /\ log' = Append(log, Ent("error_pm", 0, comment.author, <<>>, e))
          /\ Raise(e)
  /\ UNCHANGED << cache, notes, config, sig, comment, split, group, groups, users, i,
                  verdict, modsNow >>

(***************************************************************************)
(* ping_users                                                              *)
(***************************************************************************)
\* line 208 with a failure of comment.reply swallowed
post_ignores_failure ==
  /\ pc = "post"
  /\ ~sig
  /\ \E res \in {"ok"} \cup ApiErrors :
       log' = Append(log, Ent("reply", 0, comment.author, <<>>, res))
  /\ i' = 1
  /\ pc' = "dm"
  /\ UNCHANGED << cache, notes, config, exc, delay, sig, comment, split, group, groups,
                  users, verdict, modsNow >>

\* line 208: posted_comment = post_comment()
post ==
  /\ pc = "post"
  /\ ~sig
  /\ \/ /\ log' = Append(log, Ent("reply", 0, comment.author, <<>>, "ok"))
        /\ i' = 1
        /\ pc' = "dm"
        /\ UNCHANGED << exc, delay >>
     \/ \E e \in ApiErrors :
          /\ log' = Append(log, Ent("reply", 0, comment.author, <<>>, e))
          /\ Raise(e)
          /\ UNCHANGED i
  /\ UNCHANGED << cache, notes, config, sig, comment, split, group, groups, users,
                  verdict, modsNow >>

\* lines 212 to 221 without the test of line 213
dm_no_self_skip ==
  /\ pc = "dm"
  /\ ~sig
  /\ IF i > Len(users)
       THEN /\ pc' = "edit"
            /\ UNCHANGED << i, log, exc, delay >>
       ELSE \/ \E res \in {"ok", "APIException"} :
                 /\ log' = Append(log, Ent("message", i, users[i], <<>>, res))
                 /\ i' = i + 1
                 /\ UNCHANGED << pc, exc, delay >>
            \/ \E e \in Transient :
                 /\ log' = Append(log, Ent("message", i, users[i], <<>>, e))
                 /\ Raise(e)
                 /\ UNCHANGED i
  /\ UNCHANGED << cache, notes, config, sig, comment, split, group, groups, users,
                  verdict, modsNow >>

\* lines 212 to 221 without the except clause of line 220
dm_no_except ==
  /\ pc = "dm"
  /\ ~sig
  /\ IF i > Len(users)
       THEN /\ pc' = "edit"
            /\ UNCHANGED << i, log, exc, delay >>
     ELSE IF Lower(users[i]) = Lower(comment.author)
       THEN /\ i' = i + 1
            /\ UNCHANGED << pc, log, exc, delay >>
     ELSE \/ /\ log' = Append(log, Ent("message", i, users[i], <<>>, "ok"))
             /\ i' = i + 1
             /\ UNCHANGED << pc, exc, delay >>
          \/ \E e \in ApiErrors :
               /\ log' = Append(log, Ent("message", i, users[i], <<>>, e))
               /\ Raise(e)
               /\ UNCHANGED i
  /\ UNCHANGED << cache, notes, config, sig, comment, split, group, groups, users,
                  verdict, modsNow >>

\* lines 212 to 221, one iteration of the loop over users: the author is
\* skipped, the others are sent a message; an APIException is caught and the
\* loop goes on, any other exception leaves ping_users
dm ==
  /\ pc = "dm"
  /\ ~sig
  /\ IF i > Len(users)
       THEN /\ pc' = "edit"
            /\ UNCHANGED << i, log, exc, delay >>
     ELSE IF Lower(users[i]) = Lower(comment.author)
       THEN /\ i' = i + 1
            /\ UNCHANGED << pc, log, exc, delay >>
     ELSE \/ \E res \in {"ok", "APIException"} :
               /\ log' = Append(log, Ent("message", i, users[i], <<>>, res))
               /\ i' = i + 1
               /\ UNCHANGED << pc, exc, delay >>
          \/ \E e \in Transient :
               /\ log' = Append(log, Ent("message", i, users[i], <<>>, e))
               /\ Raise(e)
               /\ UNCHANGED i
  /\ UNCHANGED << cache, notes, config, sig, comment, split, group, groups, users,
                  verdict, modsNow >>

\* line 225: edit_comment(posted_comment), the body listing all of users
edit ==
  /\ pc = "edit"
  /\ ~sig
  /\ \/ /\ log' = Append(log, Ent("edit", 0, comment.author, users, "ok"))
        /\ pc' = "next"
        /\ UNCHANGED << exc, delay >>
     \/ \E e \in ApiErrors :
          /\ log' = Append(log, Ent("edit", 0, comment.author, users, e))
          /\ Raise(e)
  /\ UNCHANGED << cache, notes, config, sig, comment, split, group, groups, users, i,
                  verdict, modsNow >>

\* where the main thread is inside a request of praw: the stream's fetch
\* (line 96), get_wiki_page (150, 154), subreddit.moderator (145), message
\* (183, 216), reply (193), edit (203)
InRequest ==
  {"stream", "fetch_config", "fetch_groups", "authorize", "error_pm", "post",
   "dm", "edit"}

(***************************************************************************)
(* SIGTERM                                                                 *)
(***************************************************************************)
\* SIGTERM is delivered to the process, exit being registered (line 19, run
\* at line 27, after load)
signal ==
  /\ pc \notin {"start", "failed", "halted", "crashed"}
  /\ ~sig
  /\ sig' = TRUE
  /\ UNCHANGED << pc, cache, notes, config, exc, delay, locals >>

\* exit without the save of line 34
exit_without_save ==
  /\ sig
  /\ pc \notin {"start", "failed", "halted", "crashed"}
  /\ sig' = FALSE
  /\ pc' = "halted"
  /\ UNCHANGED << cache, notes, config, exc, delay, locals >>

\* exit, the handler of SIGTERM: save() then os._exit.  open or write can
\* fail (the file then is as before, or truncated): os._exit is not reached,
\* the exception leaves exit and is raised in the main thread where it is.
\* Nothing in listen catches an OSError; but inside a request of praw
\* (InRequest) prawcore raises RequestException for whatever exception the
\* request ends with, and listen catches that one (line 108)
exit ==
  /\ sig
  /\ pc \notin {"start", "failed", "halted", "crashed"}
  /\ sig' = FALSE
  /\ \/ /\ file' = FileOf(Dumps(Capacity, parsed))
        /\ pc' = "halted"
        /\ UNCHANGED << exc, delay >>
     \/ /\ file' \in {file, FileOf(<<>>)}
        /\ \/ /\ exc' = "OSError"
              /\ pc' = "uncaught"
              /\ UNCHANGED delay
           \/ /\ pc \in InRequest
              /\ exc' = "RequestException(OSError)"
              /\ pc' = "sleep"
              /\ delay' = Backoff("RequestException")
  /\ UNCHANGED << parsed, hist, loaded, config, locals, notes >>

\* the process, ended by exit, is started again: parsed.pkl is what the
\* previous run left, everything in memory is new.  past keeps of the previous
\* run its deque at the end (prev), the comment it was dispatching if an
\* external action was done for it (cut, 0 if none), and the number of
\* fingerprints appended in all previous runs (spent)
restart ==
  /\ pc = "halted"
  /\ pc' = "start"
  /\ parsed' = <<>>
  /\ config' = NoPage
  /\ hist' = <<>>
  /\ loaded' = <<>>
  /\ exc' = "none"
  /\ delay' = 0
  /\ aborted' = 0
  /\ past' = [restarted |-> TRUE,
              prev |-> parsed,
              cut |-> IF log # <<>> THEN Fingerprint(comment) ELSE 0,
              spent |-> past.spent + Len(hist)]
  /\ Cleared
  /\ UNCHANGED << file, sig >>

Next ==
  \/ construct
  \/ run
  \/ abort
  \/ pull
  \/ check
  \/ next
  \/ wake
  \/ handle_split
  \/ handle_append
  \/ handle_index
  \/ fetch_config
  \/ fetch_groups
  \/ lookup
  \/ authorize
  \/ error_pm
  \/ post
  \/ dm
  \/ edit
  \/ signal
  \/ exit

Spec == Init /\ [][Next]_vars

\* the handler runs once the signal is delivered; an unhandled exception
\* ends the process
FairSpec == Spec /\ WF_vars(exit) /\ WF_vars(abort)

\* the first run of the process, without parsed.pkl
RestartInit == Init /\ file = NoFile

\* a process started without parsed.pkl: the handler runs once the signal is
\* delivered, an unhandled exception ends the process, sleep returns, and
\* the entry point calls listen again
LoopSpec ==
  /\ RestartInit
  /\ [][Next]_vars
  /\ WF_vars(exit)
  /\ WF_vars(abort)
  /\ WF_vars(wake)
  /\ WF_vars(run)

\* runs of the process one after the other
RestartNext == Next \/ restart

RestartSpec == RestartInit /\ [][RestartNext]_vars

(***************************************************************************)
(* Properties                                                              *)
(***************************************************************************)
\* the log entries of one kind of external action
Entries(op) == {k \in 1..Len(log) : log[k].op = op}

\* the iteration of listen for the current comment is over, not cut short by
\* SIGTERM: handle returned or the comment was skipped (next), or an exception
\* left handle (sleep, uncaught)
DispatchOver ==
  /\ comment # NoComment
  /\ pc \in {"next", "sleep", "uncaught"}
  /\ exc \notin {"OSError", "RequestException(OSError)"}

\* C1: in every state, after load from any parsed.pkl and after any comments,
\* self.parsed holds at most Capacity fingerprints.
C1_CacheWithinCapacity == Len(parsed) <= Capacity

\* a full deque restored from a file has taken one more fingerprint
C1_Witness ==
  /\ Len(loaded) = Capacity
  /\ Len(hist) = 1
  /\ Len(parsed) = Capacity
  /\ pc = "index"

\* C2: from an empty deque, after N appends the deque holds the last
\* min(N, Capacity) appended fingerprints in the order of their arrival: all
\* of them for N <= Capacity, and the oldest are the ones that left.
C2_FifoFromEmpty ==
  loaded = <<>> =>
    /\ Len(parsed) = Min(Len(hist), Capacity)
    /\ parsed = LastN(hist, Capacity)
    /\ Len(hist) <= Capacity => \A k \in 1..Len(hist) : hist[k] \in Range(parsed)

\* Capacity + 1 distinct fingerprints were appended to an empty deque
C2_Witness ==
  /\ loaded = <<>>
  /\ Len(hist) = Capacity + 1
  /\ Cardinality(Range(hist)) = Capacity + 1
  /\ hist[1] \notin Range(parsed)

\* the current comment is in self.parsed once
InsertedOnce ==
  /\ Count(parsed, Fingerprint(comment)) = 1
  /\ hist # <<>>
  /\ hist[Len(hist)] = Fingerprint(comment)

\* the current comment was in self.parsed when the stream yielded it
Duplicate ==
  \/ pc = "check" /\ Fingerprint(comment) \in Range(parsed)
  \/ verdict = "duplicate"

\* C3: for a comment whose fingerprint is in self.parsed when it is pulled,
\* every step up to the next pull leaves the deque and self.config as they
\* are, performs no external action, parses no trigger and never enters
\* handle.
C3_DuplicateNeverDispatched ==
  [][Duplicate =>
       /\ parsed' = parsed
       /\ hist' = hist
       /\ config' = config
       /\ log = <<>> /\ log' = <<>>
       /\ split' = <<>>
       /\ group' = NoName
       /\ pc' \in {"check", "next", "stream", "halted", "uncaught", "crashed"}]_vars

\* a comment with a valid trigger was skipped as a duplicate
C3_Witness ==
  /\ verdict = "duplicate"
  /\ pc = "next"
  /\ LET s == Split(UpperAll(comment.body)) IN
       Index(s, PING) \in 1..(Len(s) - 1)

\* the lines of handle after line 115, and those of handle_ping and ping_users
AfterAppend ==
  {"index", "fetch_config", "fetch_groups", "lookup", "authorize", "error_pm",
   "post", "dm", "edit"}

\* C4: a comment not in self.parsed when pulled is appended exactly once, and
\* this before the trigger is looked for and before any external action,
\* whatever the dispatch then does (no trigger, no group, unknown group,
\* unauthorized, authorized, an exception).
C4_InsertedOnceBeforeDispatch ==
  (comment # NoComment /\ ~Duplicate) =>
    /\ pc \in {"check", "handle", "append"} => (log = <<>> /\ verdict = "none")
    /\ (pc \in AfterAppend \/ log # <<>> \/ verdict # "none" \/ DispatchOver)
         => InsertedOnce

\* an exception left the dispatch of a comment with a trigger: the comment is
\* in the deque
C4_Witness ==
  /\ pc = "sleep"
  /\ verdict = "candidate"
  /\ log # <<>>
  /\ InsertedOnce

\* the group is an option of the public section, letter case ignored
PublicIgnoringCase ==
  /\ HasSection(config, PublicSection)
  /\ \E k \in 1..Len(Options(config, PublicSection)) :
       Lower(Options(config, PublicSection)[k]) = Lower(group)

\* C5: for a group present in the roster, the decision is authorized exactly
\* when the author is a member (case ignored), or the group is public (case
\* ignored, whatever its case in the public section), or the author is a
\* moderator.
C5_AuthorizedIffMemberPublicOrModerator ==
  (verdict \in {"authorized", "unauthorized"} /\ HasSection(groups, group)) =>
    (verdict = "authorized" <=>
       \/ in_group(comment.author, users)
       \/ PublicIgnoringCase
       \/ is_moderator(comment.author, modsNow))

NotifierOps == {"reply", "message", "edit"}

\* C6: for the decisions unknown-group and unauthorized one error message goes
\* to the comment's author (exactly one sent when handle_ping has returned)
\* and ping_users does nothing: replies, messages to members and edits happen
\* only for the decision authorized.
C6_ErrorsNotifyAuthorOnly ==
  /\ (\E k \in 1..Len(log) : log[k].op \in NotifierOps) => verdict = "authorized"
  /\ Entries("error_pm") # {} => verdict \in {"unknown-group", "unauthorized"}
  /\ verdict \in {"unknown-group", "unauthorized"} =>
       /\ Cardinality(Entries("error_pm")) <= 1
       /\ \A k \in Entries("error_pm") : log[k].to = comment.author
       /\ DispatchOver => Cardinality(Entries("error_pm")) = 1
       /\ pc = "next" => \E k \in Entries("error_pm") : log[k].res = "ok"

\* handle_ping returned after the error message for an unauthorized author
C6_Witness ==
  /\ pc = "next"
  /\ verdict = "unauthorized"
  /\ Cardinality(Entries("error_pm")) = 1

\* the members of users other than the comment's author
Others == {m \in 1..Len(users) : Lower(users[m]) # Lower(comment.author)}

\* the messages sent or tried for member m of users
Sends(m) == {k \in Entries("message") : log[k].idx = m}

\* C7: the order is reply, then messages, then edit: a message is sent only
\* after the reply was posted (a failed reply is the last action), and the
\* edit comes after a send to every member the loop sends to.
C7_ReplyThenMessagesThenEdit ==
  /\ Cardinality(Entries("reply")) <= 1
  /\ Cardinality(Entries("edit")) <= 1
  /\ \A k \in Entries("reply") : log[k].res # "ok" => k = Len(log)
  /\ \A k \in Entries("message") :
       \E j \in 1..(k - 1) : log[j].op = "reply" /\ log[j].res = "ok"
  /\ \A k \in Entries("edit") :
       /\ \E j \in 1..(k - 1) : log[j].op = "reply" /\ log[j].res = "ok"
       /\ \A j \in Entries("message") : j < k
       /\ \A m \in Others : Sends(m) # {}

\* a group of several members was pinged to the end
C7_Witness ==
  /\ pc = "next"
  /\ verdict = "authorized"
  /\ Cardinality(Entries("message")) >= 2
  /\ \E k \in Entries("edit") : k = Len(log) /\ log[k].res = "ok"

\* the messages to members that failed
FailedSends == {k \in Entries("message") : log[k].res # "ok"}

\* C8 as claimed: a failed message to one member, whatever the failure, never
\* aborts the batch: all other members get a send and the reply is edited.
C8_AnyFailedSendKeepsBatch ==
  (DispatchOver /\ FailedSends # {}) =>
    /\ \A m \in Others : Sends(m) # {}
    /\ Entries("edit") # {}

\* C8 as amended: a message that fails with an APIException (recipient not
\* found) never aborts the batch: all other members get a send and the reply
\* is edited; a message that fails with a transient error is the last action
\* for the comment.
C8_ApiFailedSendKeepsBatch ==
  /\ (DispatchOver /\ FailedSends # {}
        /\ \A k \in FailedSends : log[k].res = "APIException") =>
       /\ \A m \in Others : Sends(m) # {}
       /\ Entries("edit") # {}
  /\ \A k \in FailedSends :
       log[k].res \in Transient => (k = Len(log) /\ pc \notin {"dm", "edit", "next"})

\* a message failed with an APIException, a later member was sent one, and
\* the reply was edited
C8_Witness ==
  /\ pc = "next"
  /\ \E k \in FailedSends :
       /\ log[k].res = "APIException"
       /\ \E j \in Entries("message") : j > k
  /\ Entries("edit") # {}

\* C9: no message goes to a member who is the comment's author (case
\* ignored), every other member gets exactly one send, and the edit lists all
\* of users, the author and the members whose message failed included.
C9_AuthorSkippedOthersOnceAllListed ==
  /\ \A k \in Entries("message") :
       /\ log[k].to = users[log[k].idx]
       /\ Lower(log[k].to) # Lower(comment.author)
  /\ \A m \in 1..Len(users) : Cardinality(Sends(m)) <= 1
  /\ \A k \in Entries("edit") :
       /\ log[k].body = users
       /\ \A m \in 1..Len(users) :
            Cardinality(Sends(m)) = IF m \in Others THEN 1 ELSE 0

\* the author is a member under another letter case, a message failed, and
\* the reply was edited
C9_Witness ==
  /\ pc = "next"
  /\ \E m \in 1..Len(users) : m \notin Others /\ users[m] # comment.author
  /\ FailedSends # {}
  /\ \E k \in Entries("edit") : log[k].res = "ok" /\ Len(log[k].body) = 3

\* C10: a SIGTERM delivered after construction is handled before the main
\* thread takes another step: exit saves the current deque and the process
\* ends (by os._exit, or by the exception of a save that fails); the dispatch
\* in flight is not continued.  Only a process already ending with an
\* unhandled exception may end before the handler runs.
C10_SignalLeadsToSaveAndHalt ==
  /\ sig ~> (pc \in {"halted", "crashed"})
  /\ [][sig =>
          /\ pc' \in {"halted", "uncaught", "crashed"}
          /\ pc' = "crashed" => pc = "uncaught"
          /\ parsed' = parsed
          /\ pc' # "crashed" => log' = log
          /\ pc' = "halted" => file' = FileOf(Dumps(Capacity, parsed))]_vars

\* C11: a ServerError, ResponseException or RequestException raised while the
\* stream is pulled or a comment is dispatched is caught by listen, whatever
\* its kind: the loop sleeps 60 seconds, no step but the end of the sleep or a
\* SIGTERM follows, and the loop is pulling the stream again afterwards unless
\* a SIGTERM ended the process meanwhile; the exception never leaves listen.
C11_TransientBacksOffAndResumes ==
  /\ [](config # NoPage /\ exc \in Transient =>
          pc \in {"sleep", "halted"} /\ delay = 60)
  /\ [][pc = "sleep" /\ ~sig => pc' \in {"sleep", "main"}]_vars
  /\ (pc = "sleep" ~> (pc = "stream" \/ pc \in {"halted", "crashed"}))

\* a RequestException ended the dispatch of a comment: listen sleeps
C11_Witness ==
  /\ pc = "sleep"
  /\ exc = "RequestException"
  /\ comment # NoComment
  /\ log # <<>>
  /\ delay = 60

\* the first run of the process is past __init__ and not ended: parsed.pkl is
\* still what load read
Started ==
  /\ ~past.restarted
  /\ pc \notin {"start", "failed", "halted", "uncaught", "crashed"}

\* parsed.pkl holds a well-formed pickle of a deque whose maxlen is not Capacity
TagDiffers(f) ==
  /\ f.exists
  /\ Loads(f.bytes).err = "ok"
  /\ Loads(f.bytes).maxlen # Capacity

\* C12 as stated: load of a parsed.pkl whose deque has another maxlen than
\* Capacity returns an empty deque.
C12_MismatchedCacheDiscarded ==
  Started /\ TagDiffers(file) => loaded = <<>>

\* C12: load of a parsed.pkl whose deque has another maxlen than Capacity
\* raises nothing and returns a deque of maxlen Capacity that keeps the
\* persisted fingerprints, in order: all of them if they are at most
\* Capacity, the newest Capacity of them otherwise.
C12_MismatchedCacheRecut ==
  TagDiffers(file) =>
    LET items == Loads(file.bytes).items
        n == Len(items)
    IN /\ exc \notin {"EOFError", "UnpicklingError"}
       /\ Started =>
            /\ loaded = IF n <= Capacity THEN items
                        ELSE SubSeq(items, n - Capacity + 1, n)
            /\ Len(parsed) <= Capacity
            /\ hist = <<>> => parsed = loaded

\* three fingerprints persisted under maxlen Capacity + 1: the last Capacity
\* of them are in the deque load returned
C12_Witness ==
  /\ Started
  /\ TagDiffers(file)
  /\ Len(Loads(file.bytes).items) > Capacity
  /\ Len(loaded) = Capacity
  /\ parsed = loaded
  /\ pc = "stream"

\* C13: load raises nothing whatever parsed.pkl is: with the file missing,
\* empty, or holding a corrupt or truncated pickle, __init__ goes on with an
\* empty deque.
C13_RestoreNeverFails ==
  /\ exc \notin {"FileNotFoundError", "EOFError", "UnpicklingError"}
  /\ Started /\ (~file.exists \/ Loads(file.bytes).err # "ok") => loaded = <<>>

\* the process was started again and is past __init__
Restored ==
  /\ past.restarted
  /\ pc \notin {"start", "failed", "uncaught", "crashed"}

\* C14: what save wrote of a deque of 0 to Capacity fingerprints, load reads
\* back as the same deque: the pickle carries maxlen Capacity, load raises
\* nothing and returns the same fingerprints in the same order, and they are
\* the deque of the process started next.
C14_SaveLoadRoundTrip ==
  /\ pc = "halted" =>
       /\ Loads(file.bytes) = [err |-> "ok", maxlen |-> Capacity, items |-> parsed]
       /\ load(file) = [err |-> "ok", items |-> parsed]
  /\ Restored => loaded = past.prev
  /\ Restored /\ hist = <<>> => parsed = past.prev

\* a full deque was saved, and the process started next has it
C14_Witness ==
  /\ Restored
  /\ pc = "stream"
  /\ Len(past.prev) = Capacity
  /\ parsed = past.prev
  /\ file = FileOf(Dumps(Capacity, parsed))

\* C15: the run of exit ends the process whether save succeeds or not: after
\* it the process is halted by os._exit, or is ending with the exception of
\* save, handled nowhere; listen takes no further step.
C15_FailedSaveStillEnds ==
  [][sig /\ ~sig' => pc' \in {"halted", "uncaught"}]_vars

\* C16 as stated: a group whose name in userpinger/groups differs from the
\* upper-cased trigger only in letter case is found: the author is not told
\* that the group does not exist.
C16_LookupIgnoresCase ==
  verdict = "unknown-group" =>
    ~\E k \in 1..Len(groups) : Lower(groups[k].name) = Lower(group)

\* C16: the trigger is upper-cased whatever the comment's spelling, and the
\* lookup in userpinger/groups is exact: the group is found if and only if a
\* section has the upper-cased trigger as its name, letter for letter; a
\* section named in another case is not found and the author is told that
\* the group does not exist.
C16_LookupExactOnUpperCased ==
  /\ group # NoName => group = Upper(group)
  /\ verdict = "unknown-group" =>
       ~\E k \in 1..Len(groups) : groups[k].name = group
  /\ pc = "authorize" \/ verdict \in {"authorized", "unauthorized"} =>
       \E k \in 1..Len(groups) :
         /\ groups[k].name = group
         /\ users = groups[k].opts

\* '!ping mods' written in lower case found the section MODS
C16_Witness ==
  /\ verdict = "authorized"
  /\ groups = RosterUpper
  /\ group = Nm("mods", "u")
  /\ comment.body = << Nm("!ping", "l"), WS, Nm("mods", "l") >>
  /\ users = << alice, Bob, carol >>

\* the positions of "!PING" among the words of the upper-cased body
PingAt(body) ==
  LET t == Split(UpperAll(body)) IN {k \in 1..Len(t) : t[k] = PING}

\* the lines of handle_ping and of what it calls
Dispatching ==
  {"fetch_config", "fetch_groups", "lookup", "authorize", "error_pm", "post",
   "dm", "edit"}

\* C17: once handle has looked for the trigger in the upper-cased words of the
\* body: without a word "!PING" the comment has no trigger; with the first
\* "!PING" as last word it is malformed; otherwise the group is the word after
\* the first "!PING", whatever follows.  Without trigger and malformed, handle
\* returns: no page is fetched, nothing is sent or posted.
C17_FirstTriggerParsed ==
  verdict \notin {"none", "duplicate"} =>
    LET t == Split(UpperAll(comment.body))
        P == PingAt(comment.body)
    IN /\ P = {} => verdict = "no-trigger"
       /\ P # {} /\ (\A k \in P : k >= Len(t)) => verdict = "malformed"
       /\ P # {} /\ (\E k \in P : k < Len(t)) =>
            /\ verdict \notin {"no-trigger", "malformed"}
            /\ \E k \in P :
                 /\ \A j \in P : k <= j
                 /\ group = t[k + 1]
       /\ verdict \in {"no-trigger", "malformed"} =>
            /\ log = <<>>
            /\ groups = NoPage
            /\ group = NoName
            /\ pc \notin Dispatching

\* of two triggers in a body, the group of the first one was taken
C17_Witness ==
  /\ pc = "fetch_config"
  /\ Cardinality(PingAt(comment.body)) = 2
  /\ group = Nm("news", "u")
  /\ verdict = "candidate"

\* C18: once __init__ is over, nothing read of userpinger/config or
\* userpinger/groups while a comment is dispatched ends listen: no page that
\* is missing or cannot be parsed, no config without a public section, no
\* unknown group and no unauthorized author makes one of the exceptions of
\* get_wiki_page and ConfigParser leave listen.
C18_DocumentsNeverEndLoop ==
  pc = "uncaught" => exc \notin {"NotFound", "ParsingError", "NoSectionError"}

\* C19: in a process started after exit saved the deque, whatever line the
\* SIGTERM interrupted: the deque load returns holds the comment that was
\* being dispatched if anything had been sent or posted for it, and every
\* fingerprint the deque held at the end; and no comment is handed to handle
\* while its fingerprint is among these and the appends since have not
\* pushed it out.
C19_NoRedispatchAcrossRestart ==
  Restored =>
    /\ past.cut # 0 => past.cut \in Range(loaded)
    /\ Range(past.prev) \subseteq Range(loaded)
    /\ parsed = LastN(loaded \o hist, Capacity)
    /\ pc \in {"handle", "append"} =>
         Fingerprint(comment) \notin Range(LastN(past.prev \o hist, Capacity))

\* the comment SIGTERM interrupted after its reply came again after the
\* restart and was skipped
C19_Witness ==
  /\ Restored
  /\ past.cut # 0
  /\ comment # NoComment
  /\ Fingerprint(comment) = past.cut
  /\ verdict = "duplicate"
  /\ pc = "next"
  /\ log = <<>>

\* C20: a comment whose dispatch ended with an exception caught by listen
\* is in self.parsed while listen sleeps and afterwards, until later appends
\* push it out; when the stream yields it again it is skipped:
\* handle is not called for it and nothing more is sent or posted for it.
C20_AbortedDispatchNotRetried ==
  /\ pc = "sleep" /\ comment # NoComment =>
       Fingerprint(comment) \in Range(parsed)
  /\ aborted # 0 =>
       /\ aborted \in Range(parsed)
       /\ comment # NoComment /\ Fingerprint(comment) = aborted =>
            /\ pc \notin {"handle", "append", "index"} \cup Dispatching
            /\ log = <<>>

\* the comment whose dispatch an exception ended came again after the sleep
\* and was skipped
C20_Witness ==
  /\ aborted # 0
  /\ comment # NoComment
  /\ Fingerprint(comment) = aborted
  /\ verdict = "duplicate"
  /\ pc = "next"
  /\ log = <<>>

====
